---- MODULE Spec2Model ----
(***************************************************************************)
(* STT proxy server: upload middleware, request handlers, upstream client  *)
(* (ProxyService), artifact store (AudioService) and error normalization   *)
(* (errorHandler), modelled as a state machine over request slots.         *)
(***************************************************************************)
EXTENDS Integers, Sequences, FiniteSets, TLC

(***************************************************************************)
(* Bounds of the model.                                                    *)
(***************************************************************************)
MaxInFlight == 2
MaxFiles == 2

Slots == 1..MaxInFlight

(***************************************************************************)
(* Character sequences: JavaScript strings whose characters the code       *)
(* inspects (trim, extname, toLowerCase, slice, replace).                  *)
(***************************************************************************)
RECURSIVE JoinStr(_)
JoinStr(cs) == IF cs = <<>> THEN "" ELSE Head(cs) \o JoinStr(Tail(cs))

Whitespace == {" ", "\t", "\n"}

RECURSIVE TrimStart(_)
TrimStart(cs) ==
  IF cs # <<>> /\ Head(cs) \in Whitespace THEN TrimStart(Tail(cs)) ELSE cs

RECURSIVE TrimEnd(_)
TrimEnd(cs) ==
  IF cs # <<>> /\ cs[Len(cs)] \in Whitespace
  THEN TrimEnd(SubSeq(cs, 1, Len(cs) - 1))
  ELSE cs

Trim(cs) == TrimEnd(TrimStart(cs))

Upper == <<"A","B","C","D","E","F","G","H","I","J","K","L","M",
           "N","O","P","Q","R","S","T","U","V","W","X","Y","Z">>
Lower == <<"a","b","c","d","e","f","g","h","i","j","k","l","m",
           "n","o","p","q","r","s","t","u","v","w","x","y","z">>

LowerChar(c) ==
  IF \E i \in 1..Len(Upper) : Upper[i] = c
  THEN Lower[CHOOSE i \in 1..Len(Upper) : Upper[i] = c]
  ELSE c

ToLowerCase(cs) == [i \in 1..Len(cs) |-> LowerChar(cs[i])]

\* Index of the last occurrence of character c in cs, 0 when there is none.
LastIndexOf(cs, c) ==
  IF \E i \in 1..Len(cs) : cs[i] = c
  THEN CHOOSE i \in 1..Len(cs) : cs[i] = c /\ \A j \in (i+1)..Len(cs) : cs[j] # c
  ELSE 0

\* Index of the first occurrence of character c in cs, 0 when there is none.
IndexOf(cs, c) ==
  IF \E i \in 1..Len(cs) : cs[i] = c
  THEN CHOOSE i \in 1..Len(cs) : cs[i] = c /\ \A j \in 1..(i-1) : cs[j] # c
  ELSE 0

\* Trailing path separators are not part of the last segment.
RECURSIVE StripSeparators(_)
StripSeparators(cs) ==
  IF cs # <<>> /\ cs[Len(cs)] = "/"
  THEN StripSeparators(SubSeq(cs, 1, Len(cs) - 1))
  ELSE cs

\* path.extname: the part of the last path segment from its last "." on;
\* empty when the segment has no "." or only a leading one, or is "..".
ExtName(cs) ==
  LET path == StripSeparators(cs)
      base == SubSeq(path, LastIndexOf(path, "/") + 1, Len(path))
      dot  == LastIndexOf(base, ".")
  IN IF dot <= 1 \/ base = <<".", ".">> THEN <<>>
     ELSE SubSeq(base, dot, Len(base))

\* The segments of a path between its separators, empty ones left out.
RECURSIVE Segments(_)
Segments(cs) ==
  IF cs = <<>> THEN <<>>
  ELSE LET cut == IndexOf(cs, "/")
       IN IF cut = 0 THEN <<cs>>
          ELSE IF cut = 1 THEN Segments(Tail(cs))
          ELSE <<SubSeq(cs, 1, cut - 1)>> \o Segments(SubSeq(cs, cut + 1, Len(cs)))

\* path.normalize on the segments of an absolute path: "." is dropped and
\* ".." removes the segment before it.
RECURSIVE Resolve(_, _)
Resolve(done, segs) ==
  IF segs = <<>> THEN done
  ELSE IF Head(segs) = <<".">> THEN Resolve(done, Tail(segs))
  ELSE IF Head(segs) = <<".", ".">>
  THEN Resolve(IF done = <<>> THEN done ELSE SubSeq(done, 1, Len(done) - 1),
               Tail(segs))
  ELSE Resolve(Append(done, Head(segs)), Tail(segs))

\* path.join(dir, name) for an absolute dir, as the list of its segments.
PathJoin(dir, name) == Resolve(<<>>, Segments(dir \o <<"/">> \o name))

(***************************************************************************)
(* JSON values.  A field value is [t, v]: its JavaScript type and its      *)
(* String() conversion.  A body is [kind, fields, text].                   *)
(***************************************************************************)
Str(s) == [t |-> "string", v |-> s]
Arr(s) == [t |-> "array", v |-> s]
JsNull == [t |-> "null", v |-> "null"]
JsUndefined == [t |-> "undefined", v |-> "undefined"]

Truthy(x) ==
  CASE x.t = "string" -> x.v # ""
    [] x.t \in {"null", "undefined"} -> FALSE
    [] OTHER -> TRUE

NoFields == [k \in {} |-> JsNull]

ObjectBody(f) == [kind |-> "object", fields |-> f, text |-> ""]
TextBody(s) == [kind |-> "text", fields |-> NoFields, text |-> s]
HtmlBody(s) == [kind |-> "html", fields |-> NoFields, text |-> s]
NullBody == [kind |-> "null", fields |-> NoFields, text |-> ""]
NoBody == [kind |-> "undefined", fields |-> NoFields, text |-> ""]

\* Property access body.k on a non-null body: undefined on primitives and on
\* objects that lack the key.
Get(body, k) ==
  IF body.kind = "object" /\ k \in DOMAIN body.fields
  THEN body.fields[k]
  ELSE JsUndefined

\* JavaScript truthiness of a whole body (err.data || null).
BodyTruthy(body) ==
  CASE body.kind = "object" -> TRUE
    [] body.kind = "text" -> body.text # ""
    [] OTHER -> FALSE

(***************************************************************************)
(* Configuration (read-only after startup).                                *)
(***************************************************************************)
maxFileSizeMB == 500
maxFileSize == maxFileSizeMB * 1024 * 1024
serverPort == 3000
serverHost == "0.0.0.0"

(***************************************************************************)
(* Errors.  A JavaScript Error as the handlers see it: statusCode is 0     *)
(* when the property is not set, data is NoBody when it is not set.        *)
(***************************************************************************)
JsError(code, msg, d) == [statusCode |-> code, message |-> msg, data |-> d]

\* The error axios rejects with: response/request say which of the two
\* properties is set.
AxiosError(hasResponse, hasRequest, st, d, msg) ==
  [response |-> hasResponse, request |-> hasRequest, status |-> st,
   data |-> d, message |-> msg]

BackendUnreachable == "Python backend is not reachable"
InternalServerError == "Internal server error"
RequestError == "Request error"
BadRequest == "Bad Request"
NullDetailTypeError == "Cannot read properties of null (reading 'detail')"

\* Mutant: the no-response branch reports 500 like the request-setup branch.
handleErrorNoResponse500(error) ==
  IF error.response
  THEN JsError(error.status, error.message, error.data)
  ELSE JsError(500, BackendUnreachable, NoBody)

\* Mutant: the no-response branch answers 502 Bad Gateway.
handleErrorBadGateway(error) ==
  IF error.response
  THEN IF error.data.kind \in {"null", "undefined"}
       THEN JsError(0, NullDetailTypeError, NoBody)
       ELSE JsError(error.status, error.message, error.data)
  ELSE IF error.request
       THEN JsError(502, BackendUnreachable, NoBody)
       ELSE JsError(500, InternalServerError, NoBody)

\* ProxyService.handleError, as the error that leaves the service method:
\* the custom error it builds, or the TypeError raised while building it.
handleError(error) ==
  IF error.response
  THEN IF error.data.kind \in {"null", "undefined"}
       THEN JsError(0, NullDetailTypeError, NoBody)
       ELSE LET d == Get(error.data, "detail")
                e == Get(error.data, "error")
                m == IF Truthy(d) THEN d.v
                     ELSE IF Truthy(e) THEN e.v
                     ELSE error.message
            IN JsError(error.status, m, error.data)
  ELSE IF error.request
       THEN JsError(503, BackendUnreachable, NoBody)
       ELSE JsError(500,
                    IF error.message # "" THEN error.message
                    ELSE InternalServerError,
                    NoBody)

\* err.stack: the error's name and message, then the call frames.
StackOf(err) == "Error: " \o err.message \o "\n    at <frames>"

\* What errorHandler hands to logger.error.
LogEntry(err) == [message |-> "Error: " \o err.message, stack |-> StackOf(err)]
NoLog == [message |-> "", stack |-> ""]

\* Mutant: the upstream's payload kept under a key of its own.
errorHandlerNesting(err) ==
  LET statusCode == IF err.statusCode # 0 THEN err.statusCode ELSE 500
      message == IF err.message # "" THEN err.message ELSE InternalServerError
      data == IF BodyTruthy(err.data) THEN err.data ELSE NullBody
      errorResponse ==
        [k \in {"error", "detail"} |->
           IF k = "error"
           THEN Str(IF statusCode >= 500 THEN InternalServerError ELSE RequestError)
           ELSE Str(message)]
      merged == IF data.kind = "object"
                THEN [k \in {"data"} |-> [t |-> "object", v |-> data.fields]]
                       @@ errorResponse
                ELSE errorResponse
  IN [status |-> statusCode, body |-> ObjectBody(merged), log |-> LogEntry(err)]

\* Mutant: the stack added to the body, as a development-mode handler does.
errorHandlerWithStack(err) ==
  LET statusCode == IF err.statusCode # 0 THEN err.statusCode ELSE 500
      message == IF err.message # "" THEN err.message ELSE InternalServerError
      data == IF BodyTruthy(err.data) THEN err.data ELSE NullBody
      errorResponse ==
        [k \in {"error", "detail", "stack"} |->
           IF k = "error"
           THEN Str(IF statusCode >= 500 THEN InternalServerError ELSE RequestError)
           ELSE IF k = "detail" THEN Str(message)
           ELSE Str(StackOf(err))]
      merged == IF data.kind = "object"
                THEN data.fields @@ errorResponse
                ELSE errorResponse
  IN [status |-> statusCode, body |-> ObjectBody(merged), log |-> LogEntry(err)]

\* Mutant: the 5xx test written as statusCode > 500.
errorHandlerStrictly500(err) ==
  LET statusCode == IF err.statusCode # 0 THEN err.statusCode ELSE 500
      message == IF err.message # "" THEN err.message ELSE InternalServerError
      errorResponse ==
        [k \in {"error", "detail"} |->
           IF k = "error"
           THEN Str(IF statusCode > 500 THEN InternalServerError ELSE RequestError)
           ELSE Str(message)]
      merged == IF err.data.kind = "object"
                THEN err.data.fields @@ errorResponse
                ELSE errorResponse
  IN [status |-> statusCode, body |-> ObjectBody(merged), log |-> LogEntry(err)]

\* errorHandler middleware: the status and body it sends.
errorHandler(err) ==
  LET statusCode == IF err.statusCode # 0 THEN err.statusCode ELSE 500
      message == IF err.message # "" THEN err.message ELSE InternalServerError
      data == IF BodyTruthy(err.data) THEN err.data ELSE NullBody
      errorResponse ==
        [k \in {"error", "detail"} |->
           IF k = "error"
           THEN Str(IF statusCode >= 500 THEN InternalServerError ELSE RequestError)
           ELSE Str(message)]
      merged == IF data.kind = "object"
                THEN data.fields @@ errorResponse
                ELSE errorResponse
  IN [status |-> statusCode, body |-> ObjectBody(merged), log |-> LogEntry(err)]

\* The body the handlers and the upload middleware write themselves.
ErrorBody(error, detail) ==
  ObjectBody([k \in {"error", "detail"} |->
                IF k = "error" THEN Str(error) ELSE Str(detail)])

(***************************************************************************)
(* Upload middleware (multer, memory storage, single field "audio_file").  *)
(***************************************************************************)
AudioPrefix == <<"a","u","d","i","o","/">>

allowedMimeTypes ==
  <<"audio/wav", "audio/wave", "audio/x-wav",
    "audio/mpeg", "audio/mp3",
    "audio/mp4", "audio/m4a",
    "audio/aac",
    "audio/flac",
    "audio/ogg", "audio/vorbis", "audio/opus",
    "audio/webm",
    "video/webm", "video/mp4",
    "audio/aiff", "audio/x-aiff",
    "audio/amr",
    "application/octet-stream">>

Includes(list, s) == \E i \in 1..Len(list) : list[i] = s

StartsWith(cs, prefix) ==
  Len(cs) >= Len(prefix) /\ SubSeq(cs, 1, Len(prefix)) = prefix

RECURSIVE JoinWith(_, _)
JoinWith(list, sep) ==
  IF list = <<>> THEN ""
  ELSE IF Len(list) = 1 THEN Head(list)
  ELSE Head(list) \o sep \o JoinWith(Tail(list), sep)

\* Mutant: a filter that accepts every file.
fileFilterAcceptAll(file) == file.mimetype = file.mimetype

\* fileFilter: TRUE when the file is accepted.
fileFilter(file) ==
  \/ file.mimetype = <<>>
  \/ Includes(allowedMimeTypes, JoinStr(file.mimetype))
  \/ StartsWith(file.mimetype, AudioPrefix)

UnsupportedMessage(file) ==
  "Unsupported file type: " \o JoinStr(file.mimetype)
    \o ". Supported types: " \o JoinWith(allowedMimeTypes, ", ")

\* Mutant: multer configured without limits.fileSize.
UploadErrorNoSizeLimit(file) ==
  IF ~file.present THEN "none"
  ELSE IF file.fieldname # "audio_file" THEN "LIMIT_UNEXPECTED_FILE"
  ELSE IF ~fileFilter(file) THEN "filter"
  ELSE "none"

\* What upload.single('audio_file') hands to the callback of
\* uploadMiddleware: "none" (no error), a MulterError code, or "filter" (the
\* Error of fileFilter).  The field name is checked first, then the file
\* filter, and the size limit while the file is read.
UploadError(file) ==
  IF ~file.present THEN "none"
  ELSE IF file.fieldname # "audio_file" THEN "LIMIT_UNEXPECTED_FILE"
  ELSE IF ~fileFilter(file) THEN "filter"
  ELSE IF file.size > maxFileSize THEN "LIMIT_FILE_SIZE"
  ELSE "none"

FileTooLargeMessage ==
  "File size exceeds maximum allowed size of " \o ToString(maxFileSizeMB) \o " MB"

(***************************************************************************)
(* Artifact store (AudioService).                                          *)
(***************************************************************************)
NoFilename == <<>>

ReplaceChars(cs, from, to) ==
  [i \in 1..Len(cs) |-> IF cs[i] \in from THEN to ELSE cs[i]]

ReplaceFirst(cs, c, to) ==
  LET i == IndexOf(cs, c)
  IN IF i = 0 THEN cs ELSE [cs EXCEPT ![i] = to]

Slice(cs, n) == SubSeq(cs, 1, IF Len(cs) < n THEN Len(cs) ELSE n)

DefaultExt == <<".","m","p","3">>

\* this.storageDir: path.resolve('./audio_recordings') in the working
\* directory /app.
storageDir ==
  <<"/","a","p","p","/","a","u","d","i","o","_","r","e","c","o","r","d","i","n","g","s">>

\* Mutant: the original name kept in the generated one.
generateFileNameKeepingName(originalFilename, iso, uuid) ==
  LET timestamp == ReplaceFirst(Slice(ReplaceChars(iso, {":", "."}, "-"), 19), "T", "_")
      uniqueId == Slice(uuid, 8)
  IN timestamp \o <<"_">> \o uniqueId \o <<"_">> \o originalFilename

\* Mutant: the name built from the timestamp and the extension alone.
generateFileNameNoId(originalFilename, iso, uuid) ==
  LET timestamp == ReplaceFirst(Slice(ReplaceChars(iso, {":", "."}, "-"), 19), "T", "_")
      e == ToLowerCase(ExtName(originalFilename))
      ext == IF e = <<>> THEN DefaultExt ELSE e
  IN timestamp \o ext

\* generateFileName with the clock reading (ISO string) and the uuid it drew.
generateFileName(originalFilename, iso, uuid) ==
  LET timestamp == ReplaceFirst(Slice(ReplaceChars(iso, {":", "."}, "-"), 19), "T", "_")
      uniqueId == Slice(uuid, 8)
      e == ToLowerCase(ExtName(originalFilename))
      ext == IF e = <<>> THEN DefaultExt ELSE e
  IN timestamp \o <<"_">> \o uniqueId \o ext

AudioPath == <<"/","a","u","d","i","o","/">>

DerivedBaseUrl ==
  IF serverHost = "0.0.0.0"
  THEN "http://localhost:" \o ToString(serverPort)
  ELSE "http://" \o serverHost \o ":" \o ToString(serverPort)

\* Mutant: the base URL always derived from the configuration.
getAudioUrlDerivedBase(filename, baseUrl) ==
  IF filename = NoFilename THEN JsNull
  ELSE Str(DerivedBaseUrl \o JoinStr(AudioPath) \o JoinStr(filename))

\* Mutant: the URL built without the /audio/ path of the static route.
getAudioUrlNoPath(filename, baseUrl) ==
  IF filename = NoFilename THEN JsNull
  ELSE Str(JoinStr(baseUrl) \o "/" \o JoinStr(filename))

\* getAudioUrl: a JSON value, null when there is no filename.  baseUrl is a
\* character sequence, empty when the argument is not given.
getAudioUrl(filename, baseUrl) ==
  IF filename = NoFilename THEN JsNull
  ELSE LET url == IF baseUrl = <<>> THEN DerivedBaseUrl
                  ELSE IF baseUrl[Len(baseUrl)] = "/"
                       THEN JoinStr(SubSeq(baseUrl, 1, Len(baseUrl) - 1))
                       ELSE JoinStr(baseUrl)
       IN Str(url \o JoinStr(AudioPath) \o JoinStr(filename))

(***************************************************************************)
(* Inputs of the environment: clients and the upstream service.            *)
(***************************************************************************)
Ops == {"health", "transcribe", "translate", "detect", "page", "unmatched"}

\* req.body.text of translate and detect-language: its JavaScript type and,
\* for a string, its characters.
TextAbsent == [t |-> "undefined", s |-> <<>>]
TextNumber == [t |-> "number", s |-> <<>>]
TextString(cs) == [t |-> "string", s |-> cs]
Texts ==
  {TextAbsent, TextNumber, TextString(<<>>),
   TextString(<<" ", "\t", " ">>), TextString(<<" ","h","i"," ">>)}

\* The file part of a multipart upload.
Upload(field, mime, size, name) ==
  [present |-> TRUE, fieldname |-> field, mimetype |-> mime, size |-> size,
   originalname |-> name]
NoFile ==
  [present |-> FALSE, fieldname |-> "", mimetype |-> <<>>, size |-> 0,
   originalname |-> <<>>]

MimeWav == <<"a","u","d","i","o","/","w","a","v">>
MimeCustomAudio == <<"a","u","d","i","o","/","x","-","c","u","s","t","o","m">>
MimeOctet == <<"a","p","p","l","i","c","a","t","i","o","n","/","o","c","t","e","t","-","s","t","r","e","a","m">>
MimeText == <<"t","e","x","t","/","p","l","a","i","n">>
NameRec == <<"r","e","c",".","W","A","V">>
NameTraversal == <<".",".","/",".",".","/","e","t","c","/","p","a","s","s","w","d">>
NameAudio == <<"a","u","d","i","o">>

StdUpload == Upload("audio_file", MimeWav, 1024, NameRec)

Uploads ==
  {NoFile,
   StdUpload,
   Upload("audio_file", MimeWav, 0, NameRec),
   Upload("audio_file", MimeCustomAudio, 1024, NameTraversal),
   Upload("audio_file", MimeOctet, 1024, NameAudio),
   Upload("audio_file", <<>>, 1024, NameRec),
   Upload("audio_file", MimeText, 1024, NameRec),
   Upload("audio_file", MimeText, maxFileSize + 1, NameRec),
   Upload("audio_file", MimeWav, maxFileSize + 1, NameRec),
   Upload("file", MimeWav, 1024, NameRec),
   Upload("file", MimeWav, maxFileSize + 1, NameRec)}

\* req.protocol + "://" + the Host header the client sent.
ProxyHost == <<"h","t","t","p",":","/","/","p","r","o","x","y",":","3","0","0","0">>
Hosts == {ProxyHost, <<"h","t","t","p",":","/","/","s","t","t",".","e","x","a","m","p","l","e",".","c","o","m">>}

\* Clock readings (Date.toISOString) and uuids the artifact store may draw.
Clock == {<<"2","0","2","4","-","0","5","-","1","7","T","0","9",":","3","0",":","0","5",".","1","2","3","Z">>,
          <<"2","0","2","4","-","0","5","-","1","7","T","0","9",":","3","0",":","0","6",".","0","0","0","Z">>}
Uuids == {<<"3","f","2","b","8","c","1","e","-","9","d","4","a","-","4","b","7","c","-","8","e","2","1","-","5","a","6","f","7","b","8","c","9","d","0","e">>,
          <<"a","1","b","2","c","3","d","4","-","0","0","0","0","-","4","0","0","0","-","8","0","0","0","-","1","2","3","4","5","6","7","8","9","a","b","c">>,
          <<"3","f","2","b","8","c","1","e","-","0","c","5","5","-","4","e","1","f","-","b","0","a","a","-","0","1","2","3","4","5","6","7","8","9","a","b">>}

\* What the upstream may do with one call.
OkBodies ==
  {ObjectBody([k \in {"text"} |-> Str("hello world")]),
   ObjectBody([k \in {"text", "audio_file_url"} |->
                 IF k = "text" THEN Str("hello world")
                 ELSE Str("http://backend:8000/audio/x.mp3")]),
   ObjectBody([k \in {"status", "error"} |->
                 IF k = "status" THEN Str("healthy") ELSE JsNull]),
   NullBody}

ErrBodies ==
  {ObjectBody(NoFields),
   ObjectBody([k \in {"detail"} |-> Str("Unsupported language")]),
   ObjectBody([k \in {"error", "code"} |->
                 IF k = "error" THEN Str("Validation Error") ELSE Str("E42")]),
   ObjectBody([k \in {"detail"} |-> Arr("[object Object]")]),
   TextBody("upstream exploded"),
   TextBody(""),
   NullBody}

RejectStatuses == {404, 422, 500}

UpstreamReply(type, st, d, msg) ==
  [type |-> type, status |-> st, data |-> d, message |-> msg]
NoReply == UpstreamReply("none", 0, NoBody, "")

Replies ==
  {UpstreamReply("ok", 200, d, "") : d \in OkBodies}
    \cup {UpstreamReply("reject", st, d,
                        "Request failed with status code " \o ToString(st)) :
            st \in RejectStatuses, d \in ErrBodies}
    \cup {UpstreamReply("noresponse", 0, NoBody, m) :
            m \in {"connect ECONNREFUSED 127.0.0.1:8000",
                   "timeout of 300000ms exceeded"}}
    \cup {UpstreamReply("setup", 0, NoBody, m) : m \in {"Invalid URL", ""}}

\* The error axios rejects with for a reply that is not a 2xx response.
AxiosErrorOf(r) ==
  AxiosError(r.type = "reject", r.type \in {"reject", "noresponse"},
             r.status, r.data, r.message)

\* req.query of a transcribe request: each parameter undefined or a string.
Query(language, wordTimestamps, diarization) ==
  [language |-> language, enable_word_timestamps |-> wordTimestamps,
   enable_diarization |-> diarization]
NoQuery == Query(JsUndefined, JsUndefined, JsUndefined)
Queries ==
  {NoQuery,
   Query(Str("hi"), Str("false"), Str("true")),
   Query(Str(""), Str("true"), Str("TRUE")),
   Query(JsUndefined, Str("1"), Str("")),
   Query(Str("en"), JsUndefined, Str("false"))}

\* The transcribe requests clients send: every upload, and the standard
\* upload under every Host header and with every query.
TranscribeInputs ==
  {[file |-> f, host |-> ProxyHost, query |-> NoQuery] : f \in Uploads}
    \cup {[file |-> StdUpload, host |-> h, query |-> NoQuery] : h \in Hosts}
    \cup {[file |-> StdUpload, host |-> ProxyHost, query |-> q] : q \in Queries}

(***************************************************************************)
(* State.                                                                  *)
(***************************************************************************)
VARIABLES
  saveAudioFiles,  \* config.audio.saveAudioFiles
  store,           \* the storage directory: filename -> bytes written
  req,             \* per connection slot: the request being served
  proc             \* the process: storage-root creation, listening, exit

vars == <<saveAudioFiles, store, req, proc>>

\* No error was handed to errorHandler.
NoError == JsError(0, "", NoBody)

\* No query string was sent upstream.
NoParams == [k \in {} |-> ""]

Buffer(file) == [size |-> file.size, name |-> file.originalname]

Idle ==
  [op |-> "none", pc |-> "idle", text |-> TextAbsent, file |-> NoFile,
   host |-> <<>>, reqFile |-> FALSE, reached |-> FALSE, saved |-> NoFilename,
   iso |-> <<>>, uuid |-> <<>>, query |-> NoQuery, forwarded |-> NoParams,
   logged |-> NoLog,
   writes |-> 0, calls |-> 0, reply |-> NoReply, parse |-> "ok",
   err |-> NoError, status |-> 0, body |-> NoBody, sent |-> 0]

\* res.status(st).json(b) / res.send(b): the response is written.
Send(r, st, b) ==
  [r EXCEPT !.status = st, !.body = b, !.sent = @ + 1, !.pc = "done"]

InFlight == {i \in Slots : req[i].pc \notin {"idle", "done"}}

\* The storage directory when the server starts: empty, or holding an
\* artifact written by an earlier run.
EarlierFile ==
  <<"2","0","2","4","-","0","5","-","1","6","_","0","8","-","0","0","-","0","0","_","0","b","a","d","c","0","d","e",".","w","a","v">>
EmptyStore == [n \in {} |-> Buffer(NoFile)]
InitialStores ==
  {EmptyStore,
   [n \in {EarlierFile} |-> Buffer(Upload("audio_file", MimeWav, 2048, NameRec))]}

\* The process: dir is the state of the mkdir the AudioService constructor
\* started, phase is "running" from app.listen until a shutdown signal,
\* "closing" after server.close(), "exited" after process.exit(code); at is
\* the time in ms since the signal at which the process exited.
Process(dir, phase, code, at) ==
  [dir |-> dir, phase |-> phase, code |-> code, at |-> at]

\* No exit code yet.
NoExit == 0 - 1

\* The server in steady state: the storage root exists, the server listens.
Serving == Process("ready", "running", NoExit, 0)

Init ==
  /\ saveAudioFiles \in BOOLEAN
  /\ store \in InitialStores
  /\ req = [i \in Slots |-> Idle]
  /\ proc = Serving

(***************************************************************************)
(* A request arrives and is routed.                                        *)
(***************************************************************************)
NewRequest(op, text, file, host, parse) ==
  [Idle EXCEPT !.op = op, !.text = text, !.file = file, !.host = host,
               !.parse = parse,
               !.pc = IF op = "transcribe" THEN "upload"
                      ELSE IF op \in {"translate", "detect"} THEN "parse"
                      ELSE "handler"]

Arrive(i) ==
  /\ req[i].pc = "idle"
  /\ Cardinality(DOMAIN store) + Cardinality(InFlight) < MaxFiles
  /\ \E op \in Ops, host \in {ProxyHost} :
       \/ /\ op = "transcribe"
          /\ \E t \in TranscribeInputs :
               req' = [req EXCEPT ![i] =
                         [NewRequest(op, TextAbsent, t.file, t.host, "ok")
                            EXCEPT !.query = t.query]]
       \/ /\ op \in {"translate", "detect"}
          /\ \/ \E t \in Texts :
                  req' = [req EXCEPT ![i] = NewRequest(op, t, NoFile, host, "ok")]
             \/ \E p \in {"malformed", "too large"} :
                  req' = [req EXCEPT ![i] =
                            NewRequest(op, TextAbsent, NoFile, host, p)]
       \/ /\ op \in {"health", "page", "unmatched"}
          /\ req' = [req EXCEPT ![i] =
                       NewRequest(op, TextAbsent, NoFile, host, "ok")]
  /\ UNCHANGED <<saveAudioFiles, store, proc>>

\* A client that sends one request at a time.
SeqArrive(i) ==
  /\ \A j \in Slots : req[j].pc = "idle"
  /\ Arrive(i)

\* The connection of an answered request ends; its slot is free again.
Close(i) ==
  /\ req[i].pc = "done"
  /\ req' = [req EXCEPT ![i] = Idle]
  /\ UNCHANGED <<saveAudioFiles, store, proc>>

\* next(err): errorHandler writes the response for err.
Normalize(r, err) ==
  LET out == errorHandler(err)
  IN Send([r EXCEPT !.err = err, !.logged = out.log], out.status, out.body)

\* express.json({ limit: '50mb' }) in front of the routes: a body that does
\* not parse, or is over the limit, fails with the parser's own status.
jsonParser(i) ==
  /\ req[i].pc = "parse"
  /\ LET r == req[i]
     IN req' = [req EXCEPT ![i] =
                  CASE r.parse = "malformed" ->
                         Normalize(r, JsError(400, "Unexpected end of JSON input", NoBody))
                    [] r.parse = "too large" ->
                         Normalize(r, JsError(413, "request entity too large", NoBody))
                    [] OTHER -> [r EXCEPT !.pc = "handler"]]
  /\ UNCHANGED <<saveAudioFiles, store, proc>>

(***************************************************************************)
(* POST /v1/transcribe: upload middleware, handler, artifact store.        *)
(***************************************************************************)
\* Mutant: the MulterError branch without its return, so next() is called
\* after the response was written.
uploadMiddlewareNoReturn(i) ==
  /\ req[i].pc = "upload"
  /\ LET r == req[i]
         err == UploadError(r.file)
     IN \/ /\ err \in {"LIMIT_FILE_SIZE", "LIMIT_UNEXPECTED_FILE"}
           /\ req' = [req EXCEPT ![i] =
                        [Send(r, 400, ErrorBody(BadRequest, FileTooLargeMessage))
                           EXCEPT !.pc = "handler"]]
        \/ /\ err = "filter"
           /\ req' = [req EXCEPT ![i] =
                        Normalize(r, JsError(0, UnsupportedMessage(r.file), NoBody))]
        \/ /\ err = "none"
           /\ req' = [req EXCEPT ![i] = [r EXCEPT !.reqFile = r.file.present,
                                                  !.pc = "handler"]]
  /\ UNCHANGED <<saveAudioFiles, store, proc>>

\* uploadMiddleware: the callback given to upload.single('audio_file').
uploadMiddleware(i) ==
  /\ req[i].pc = "upload"
  /\ LET r == req[i]
         err == UploadError(r.file)
     IN \/ /\ err = "LIMIT_FILE_SIZE"
           /\ req' = [req EXCEPT ![i] =
                        Send(r, 400, ErrorBody(BadRequest, FileTooLargeMessage))]
        \/ /\ err = "LIMIT_UNEXPECTED_FILE"
           /\ req' = [req EXCEPT ![i] =
                        Send(r, 400, ErrorBody(BadRequest, "Unexpected field"))]
        \/ /\ err = "filter"
           /\ req' = [req EXCEPT ![i] =
                        Normalize(r, JsError(0, UnsupportedMessage(r.file), NoBody))]
        \/ /\ err = "none"
           /\ req' = [req EXCEPT ![i] = [r EXCEPT !.reqFile = r.file.present,
                                                  !.pc = "handler"]]
  /\ UNCHANGED <<saveAudioFiles, store, proc>>

\* Mutant: transcribe without the check of req.file.
transcribeNoFileCheck(i) ==
  /\ req[i].pc = "handler"
  /\ req[i].op = "transcribe"
  /\ req' = [req EXCEPT ![i] = [@ EXCEPT !.reached = TRUE, !.pc = "persist"]]
  /\ UNCHANGED <<saveAudioFiles, store, proc>>

\* transcribe, up to its first await: the check of req.file.
transcribe(i) ==
  /\ req[i].pc = "handler"
  /\ req[i].op = "transcribe"
  /\ LET r == [req[i] EXCEPT !.reached = TRUE]
     IN IF ~r.reqFile
        THEN req' = [req EXCEPT ![i] =
                       Send(r, 400, ErrorBody(BadRequest, "Audio file is required"))]
        ELSE req' = [req EXCEPT ![i] = [r EXCEPT !.pc = "persist"]]
  /\ UNCHANGED <<saveAudioFiles, store, proc>>

\* Mutant: transcribe without the try/catch around saveAudioFile, so a failed
\* write ends the request through next(error).
saveAudioFileAborting(i) ==
  /\ req[i].pc = "persist"
  /\ saveAudioFiles
  /\ req' = [req EXCEPT ![i] =
               Normalize([@ EXCEPT !.writes = @ + 1],
                         JsError(0, "Failed to save audio file: EACCES", NoBody))]
  /\ UNCHANGED <<saveAudioFiles, store, proc>>

\* Mutant: the store keeps the newest file only.
saveAudioFileRotating(i) ==
  /\ req[i].pc = "persist"
  /\ saveAudioFiles
  /\ \E iso \in Clock, uuid \in Uuids :
       LET filename == generateFileName(req[i].file.originalname, iso, uuid)
       IN /\ store' = [n \in {filename} |-> Buffer(req[i].file)]
          /\ req' = [req EXCEPT ![i] = [@ EXCEPT !.saved = filename,
                                                 !.iso = iso, !.uuid = uuid,
                                                 !.writes = @ + 1,
                                                 !.pc = "forward"]]
  /\ UNCHANGED <<saveAudioFiles, proc>>

\* Mutant: saveAudioFile without its check of this.saveAudioFiles.
saveAudioFileAlways(i) ==
  /\ req[i].pc = "persist"
  /\ \E iso \in Clock, uuid \in Uuids :
       LET filename == generateFileName(req[i].file.originalname, iso, uuid)
       IN /\ store' = [n \in DOMAIN store \cup {filename} |->
                         IF n = filename THEN Buffer(req[i].file) ELSE store[n]]
          /\ req' = [req EXCEPT ![i] = [@ EXCEPT !.saved = filename,
                                                 !.iso = iso, !.uuid = uuid,
                                                 !.writes = @ + 1,
                                                 !.pc = "forward"]]
  /\ UNCHANGED <<saveAudioFiles, proc>>

\* transcribe: const originalFilename = req.file.originalname || 'audio'.
originalFilename(file) ==
  IF file.originalname = <<>> THEN NameAudio ELSE file.originalname

\* fs.writeFile succeeds or fails; it can only fail when the directory could
\* not be created.
WriteOutcomes == IF proc.dir = "failed" THEN {FALSE} ELSE BOOLEAN

\* AudioService.saveAudioFile as awaited by transcribe: the write succeeds or
\* fails; transcribe catches the failure and goes on with no filename.
saveAudioFile(i) ==
  /\ req[i].pc = "persist"
  /\ LET r == req[i]
     IN IF ~saveAudioFiles
        THEN /\ req' = [req EXCEPT ![i] = [r EXCEPT !.saved = NoFilename,
                                                    !.pc = "forward"]]
             /\ UNCHANGED store
        ELSE \E iso \in Clock, uuid \in Uuids, written \in WriteOutcomes :
               LET filename == generateFileName(originalFilename(r.file), iso, uuid)
               IN IF written
                  THEN /\ store' = [n \in DOMAIN store \cup {filename} |->
                                      IF n = filename THEN Buffer(r.file)
                                      ELSE store[n]]
                       /\ req' = [req EXCEPT ![i] =
                                    [r EXCEPT !.saved = filename,
                                              !.iso = iso, !.uuid = uuid,
                                              !.writes = @ + 1,
                                              !.pc = "forward"]]
                  ELSE /\ UNCHANGED store
                       /\ req' = [req EXCEPT ![i] =
                                    [r EXCEPT !.saved = NoFilename,
                                              !.writes = @ + 1,
                                              !.pc = "forward"]]
  /\ UNCHANGED <<saveAudioFiles, proc>>

Bool(b) == [t |-> "boolean", v |-> IF b THEN "true" ELSE "false"]

\* Mutant: word timestamps are off unless asked for.
TranscribeParamsOptIn(query) ==
  [language |-> IF Truthy(query.language) THEN query.language ELSE Str("auto"),
   enable_word_timestamps |-> Bool(query.enable_word_timestamps = Str("true")),
   enable_diarization |->
     IF query.enable_diarization # JsUndefined
     THEN Bool(query.enable_diarization = Str("true"))
     ELSE Bool(FALSE)]

\* The params object transcribe builds from req.query.
TranscribeParams(query) ==
  [language |-> IF Truthy(query.language) THEN query.language ELSE Str("auto"),
   enable_word_timestamps |->
     IF query.enable_word_timestamps # JsUndefined
     THEN Bool(query.enable_word_timestamps = Str("true"))
     ELSE Bool(TRUE),
   enable_diarization |->
     IF query.enable_diarization # JsUndefined
     THEN Bool(query.enable_diarization = Str("true"))
     ELSE Bool(FALSE)]

\* The URLSearchParams ProxyService.transcribe appends to the upstream URL.
QueryParams(params) ==
  LET names ==
        (IF Truthy(params.language) THEN {"language"} ELSE {})
          \cup (IF params.enable_word_timestamps # JsUndefined
                 THEN {"enable_word_timestamps"} ELSE {})
          \cup (IF params.enable_diarization # JsUndefined
                 THEN {"enable_diarization"} ELSE {})
  IN [k \in names |-> params[k].v]

\* Mutant: saveAudioFile not awaited, the upstream call issued while the
\* write is still pending.
proxyTranscribeEarly(i) ==
  /\ req[i].pc \in {"persist", "forward"}
  /\ req' = [req EXCEPT ![i] =
               [@ EXCEPT !.calls = @ + 1,
                         !.forwarded =
                           QueryParams(TranscribeParams(req[i].query)),
                         !.pc = "awaiting"]]
  /\ UNCHANGED <<saveAudioFiles, store, proc>>

\* ProxyService.transcribe: the request is handed to the HTTP client.
proxyTranscribe(i) ==
  /\ req[i].pc = "forward"
  /\ req' = [req EXCEPT ![i] =
               [@ EXCEPT !.calls = @ + 1,
                         !.forwarded =
                           QueryParams(TranscribeParams(req[i].query)),
                         !.pc = "awaiting"]]
  /\ UNCHANGED <<saveAudioFiles, store, proc>>

\* Mutant: the URL names a file found in the storage directory instead of
\* the one this request saved.
TranscribeResponseStoredFile(r, data) ==
  LET audioFileUrl == IF DOMAIN store # {}
                      THEN getAudioUrl(CHOOSE n \in DOMAIN store : n # r.saved
                                                                  \/ DOMAIN store = {n},
                                       r.host)
                      ELSE JsNull
      url == IF Truthy(audioFileUrl) THEN audioFileUrl ELSE JsNull
  IN ObjectBody([k \in {"audio_file_url"} |-> url] @@ data.fields)

\* Mutant: without a saved filename the URL is built from the upload's name.
TranscribeResponseOriginalName(r, data) ==
  LET audioFileUrl == getAudioUrl(IF r.saved # NoFilename THEN r.saved
                                  ELSE r.file.originalname, r.host)
      url == IF Truthy(audioFileUrl) THEN audioFileUrl ELSE JsNull
  IN ObjectBody([k \in {"audio_file_url"} |-> url] @@ data.fields)

\* Mutant: the spread written last, so an upstream audio_file_url wins.
TranscribeResponseUpstreamLast(r, data) ==
  LET audioFileUrl == IF r.saved # NoFilename
                      THEN getAudioUrl(r.saved, r.host)
                      ELSE JsNull
      url == IF Truthy(audioFileUrl) THEN audioFileUrl ELSE JsNull
  IN ObjectBody(data.fields @@ [k \in {"audio_file_url"} |-> url])

\* The response transcribe builds from the upstream's data.
TranscribeResponse(r, data) ==
  LET audioFileUrl == IF r.saved # NoFilename
                      THEN getAudioUrl(r.saved, r.host)
                      ELSE JsNull
      url == IF Truthy(audioFileUrl) THEN audioFileUrl ELSE JsNull
  IN ObjectBody([k \in {"audio_file_url"} |-> url] @@ data.fields)

\* Mutant: a call that got no response is issued once more.
SettleRetrying(r, reply, success) ==
  IF reply.type = "noresponse" /\ r.calls < 2
  THEN [r EXCEPT !.calls = @ + 1]
  ELSE IF reply.type = "ok"
  THEN Send([r EXCEPT !.reply = reply], 200, success)
  ELSE Normalize([r EXCEPT !.reply = reply], handleError(AxiosErrorOf(reply)))

\* What a handler sends once the awaited service call has settled: the
\* success body, or next(error) and so the answer of errorHandler.
Settle(r, reply, success) ==
  IF reply.type = "ok"
  THEN Send([r EXCEPT !.reply = reply], 200, success)
  ELSE Normalize([r EXCEPT !.reply = reply], handleError(AxiosErrorOf(reply)))

\* Mutant: the saved file is removed again when the upstream call fails.
transcribeReplyCleaning(i) ==
  /\ req[i].pc = "awaiting"
  /\ req[i].op = "transcribe"
  /\ \E reply \in Replies :
       /\ req' = [req EXCEPT ![i] =
                    Settle(req[i], reply, TranscribeResponse(req[i], reply.data))]
       /\ store' = IF reply.type = "ok" THEN store
                   ELSE [n \in DOMAIN store \ {req[i].saved} |-> store[n]]
  /\ UNCHANGED <<saveAudioFiles, proc>>

transcribeReply(i) ==
  /\ req[i].pc = "awaiting"
  /\ req[i].op = "transcribe"
  /\ \E reply \in Replies :
       req' = [req EXCEPT ![i] =
                 Settle(req[i], reply, TranscribeResponse(req[i], reply.data))]
  /\ UNCHANGED <<saveAudioFiles, store, proc>>

(***************************************************************************)
(* POST /v1/translate, POST /v1/detect-language, GET /health.              *)
(***************************************************************************)
\* Mutant: the check without its trim() clause.
TextRejectedNoTrim(text) ==
  \/ text.t \in {"undefined", "null"} \/ (text.t = "string" /\ text.s = <<>>)
  \/ text.t # "string"

\* The check of req.body.text shared by translate and detectLanguage.
TextRejected(text) ==
  \/ text.t \in {"undefined", "null"} \/ (text.t = "string" /\ text.s = <<>>)
  \/ text.t # "string"
  \/ Len(Trim(text.s)) = 0

TextHandler(i) ==
  /\ req[i].pc = "handler"
  /\ LET r == [req[i] EXCEPT !.reached = TRUE]
     IN IF TextRejected(r.text)
        THEN req' = [req EXCEPT ![i] =
                       Send(r, 400,
                            ErrorBody(BadRequest,
                                      "Text field is required and cannot be empty"))]
        ELSE req' = [req EXCEPT ![i] = [r EXCEPT !.calls = @ + 1,
                                                 !.pc = "awaiting"]]
  /\ UNCHANGED <<saveAudioFiles, store, proc>>

translate(i) ==
  /\ req[i].op = "translate"
  /\ TextHandler(i)

detectLanguage(i) ==
  /\ req[i].op = "detect"
  /\ TextHandler(i)

getHealth(i) ==
  /\ req[i].pc = "handler"
  /\ req[i].op = "health"
  /\ req' = [req EXCEPT ![i] = [@ EXCEPT !.reached = TRUE, !.calls = @ + 1,
                                         !.pc = "awaiting"]]
  /\ UNCHANGED <<saveAudioFiles, store, proc>>

\* Mutant: the handler marks the answer with a field of its own.
passthroughReplyMarked(i) ==
  /\ req[i].pc = "awaiting"
  /\ req[i].op \in {"health", "translate", "detect"}
  /\ \E reply \in Replies :
       req' = [req EXCEPT ![i] =
                 Settle(req[i], reply,
                        ObjectBody([k \in {"proxied"} |-> Str("true")]
                                     @@ reply.data.fields))]
  /\ UNCHANGED <<saveAudioFiles, store, proc>>

\* healthCheck, translate and detectLanguage settle: res.json(data).
passthroughReply(i) ==
  /\ req[i].pc = "awaiting"
  /\ req[i].op \in {"health", "translate", "detect"}
  /\ \E reply \in Replies :
       req' = [req EXCEPT ![i] = Settle(req[i], reply, reply.data)]
  /\ UNCHANGED <<saveAudioFiles, store, proc>>

(***************************************************************************)
(* HTML page and unmatched routes.                                         *)
(***************************************************************************)
\* getRecordingsPage: the page, or the HTML error page of its catch block.
getRecordingsPage(i) ==
  /\ req[i].pc = "handler"
  /\ req[i].op = "page"
  /\ \E failed \in BOOLEAN :
       req' = [req EXCEPT ![i] =
                 IF failed
                 THEN Send([@ EXCEPT !.reached = TRUE], 500,
                           HtmlBody("Error loading recordings"))
                 ELSE Send([@ EXCEPT !.reached = TRUE], 200,
                           HtmlBody("Recordings"))]
  /\ UNCHANGED <<saveAudioFiles, store, proc>>

\* Mutant: no 404 handler registered, the framework's own HTML page is sent.
notFoundDefault(i) ==
  /\ req[i].pc = "handler"
  /\ req[i].op = "unmatched"
  /\ req' = [req EXCEPT ![i] = Send(@, 404, HtmlBody("Cannot GET"))]
  /\ UNCHANGED <<saveAudioFiles, store, proc>>

\* The 404 handler registered after the routes.
notFound(i) ==
  /\ req[i].pc = "handler"
  /\ req[i].op = "unmatched"
  /\ req' = [req EXCEPT ![i] = Send(@, 404, ErrorBody("Not Found", "Route not found"))]
  /\ UNCHANGED <<saveAudioFiles, store, proc>>

(***************************************************************************)
(* Specification: requests served one at a time.                           *)
(***************************************************************************)
Next ==
  \E i \in Slots :
    \/ SeqArrive(i)
    \/ jsonParser(i)
    \/ uploadMiddleware(i)
    \/ transcribe(i)
    \/ saveAudioFile(i)
    \/ proxyTranscribe(i)
    \/ transcribeReply(i)
    \/ translate(i)
    \/ detectLanguage(i)
    \/ getHealth(i)
    \/ passthroughReply(i)
    \/ getRecordingsPage(i)
    \/ notFound(i)
    \/ Close(i)

Spec == Init /\ [][Next]_vars

(***************************************************************************)
(* Specification: one request followed from its arrival to its response.   *)
(* The event loop runs every callback that is ready, and the HTTP client   *)
(* settles every call, by its timeout at the latest.                       *)
(***************************************************************************)
Serve(i) ==
  \/ jsonParser(i)
  \/ uploadMiddleware(i)
  \/ transcribe(i)
  \/ saveAudioFile(i)
  \/ proxyTranscribe(i)
  \/ transcribeReply(i)
  \/ translate(i)
  \/ detectLanguage(i)
  \/ getHealth(i)
  \/ passthroughReply(i)
  \/ getRecordingsPage(i)
  \/ notFound(i)

NextLive == \E i \in Slots : SeqArrive(i) \/ Serve(i)

SpecLive ==
  Init /\ [][NextLive]_vars /\ \A i \in Slots : WF_vars(Serve(i))

(***************************************************************************)
(* Specification: a burst of transcribe requests served concurrently, one  *)
(* per connection.  Every await of a handler is a point where another      *)
(* request's steps interleave.                                             *)
(***************************************************************************)
\* Uploads of concurrent clients: the same name, with the same bytes or not.
ConcUploads == {StdUpload, Upload("audio_file", MimeWav, 0, NameRec)}

ConcReplies ==
  {UpstreamReply("ok", 200, ObjectBody([k \in {"text"} |-> Str("hello world")]), ""),
   UpstreamReply("noresponse", 0, NoBody, "connect ECONNREFUSED 127.0.0.1:8000")}

ConcText == TextString(<<"h","i">>)

ConcArrive(i) ==
  /\ req[i].pc = "idle"
  /\ Cardinality(DOMAIN store) + Cardinality(InFlight) < MaxFiles
  /\ \/ \E f \in ConcUploads :
            req' = [req EXCEPT ![i] =
                      NewRequest("transcribe", TextAbsent, f, ProxyHost, "ok")]
     \/ \E op \in {"health", "translate", "detect"} :
            req' = [req EXCEPT ![i] =
                      NewRequest(op, ConcText, NoFile, ProxyHost, "ok")]
  /\ UNCHANGED <<saveAudioFiles, store, proc>>

ConcReply(i) ==
  /\ req[i].pc = "awaiting"
  /\ req[i].op = "transcribe"
  /\ \E reply \in ConcReplies :
       req' = [req EXCEPT ![i] =
                 Settle(req[i], reply, TranscribeResponse(req[i], reply.data))]
  /\ UNCHANGED <<saveAudioFiles, store, proc>>

ConcPassthroughReply(i) ==
  /\ req[i].pc = "awaiting"
  /\ req[i].op \in {"health", "translate", "detect"}
  /\ \E reply \in ConcReplies :
       req' = [req EXCEPT ![i] = Settle(req[i], reply, reply.data)]
  /\ UNCHANGED <<saveAudioFiles, store, proc>>

NextConc ==
  \E i \in Slots :
    \/ ConcArrive(i)
    \/ uploadMiddleware(i)
    \/ transcribe(i)
    \/ saveAudioFile(i)
    \/ proxyTranscribe(i)
    \/ ConcReply(i)
    \/ jsonParser(i)
    \/ translate(i)
    \/ detectLanguage(i)
    \/ getHealth(i)
    \/ ConcPassthroughReply(i)

SpecConc == Init /\ [][NextConc]_vars

(***************************************************************************)
(* Specification: the server receives a shutdown signal while it serves.   *)
(* Time is counted from the signal, at the instants where it matters.  A   *)
(* repeated signal registers one more close listener and a later timer,    *)
(* which changes neither the exit nor its time, so one signal is modelled. *)
(***************************************************************************)
\* setTimeout(..., 10000): the grace period in ms.
ShutdownTimeout == 10000

\* The instants observed after the signal: the signal, midway, the timeout.
Instants == {0, ShutdownTimeout \div 2, ShutdownTimeout}

\* The connections the server holds: a request in flight, or a kept-alive
\* connection whose request was answered.
OpenConnections == {i \in Slots : req[i].pc # "idle"}

\* The server's 'close' event is due: it is emitted on the next tick, ahead
\* of every timer and every I/O callback.
Drained == proc.phase = "closing" /\ OpenConnections = {}

\* A client connects and sends a request, or sends the next request on the
\* connection it kept alive; a closed server accepts no connection.
ShutArrive(i) ==
  /\ \/ req[i].pc = "idle" /\ proc.phase = "running"
     \/ req[i].pc = "done" /\ proc.phase \in {"running", "closing"}
  /\ \E op \in {"health", "translate"} :
       req' = [req EXCEPT ![i] =
                 NewRequest(op, ConcText, NoFile, ProxyHost, "ok")]
  /\ UNCHANGED <<saveAudioFiles, store, proc>>

\* The handlers run for as long as the process does.
ShutServe(i) ==
  /\ proc.phase # "exited"
  /\ \/ jsonParser(i)
     \/ translate(i)
     \/ getHealth(i)
     \/ ConcPassthroughReply(i)

ShutClose(i) ==
  /\ proc.phase # "exited"
  /\ Close(i)

\* process.on('SIGTERM' | 'SIGINT', gracefulShutdown): server.close(cb) stops
\* the listening socket and setTimeout arms the forced exit.
gracefulShutdown ==
  /\ proc.phase = "running"
  /\ proc' = [proc EXCEPT !.phase = "closing", !.at = 0]
  /\ UNCHANGED <<saveAudioFiles, store, req>>

\* Time passes while the server waits for its connections.
Tick ==
  /\ proc.phase = "closing"
  /\ ~Drained
  /\ \E t \in Instants :
       /\ t > proc.at
       /\ \A u \in Instants : u > proc.at => t <= u
       /\ proc' = [proc EXCEPT !.at = t]
  /\ UNCHANGED <<saveAudioFiles, store, req>>

\* Mutant: the signal handler exits at once instead of from the callback
\* of server.close.
serverClosedEager ==
  /\ proc.phase = "closing"
  /\ proc' = [proc EXCEPT !.phase = "exited", !.code = 0]
  /\ UNCHANGED <<saveAudioFiles, store, req>>

\* The callback of server.close: every connection has ended; process.exit(0).
serverClosed ==
  /\ Drained
  /\ proc' = [proc EXCEPT !.phase = "exited", !.code = 0]
  /\ UNCHANGED <<saveAudioFiles, store, req>>

\* The callback of setTimeout: process.exit(1).
forcedExit ==
  /\ proc.phase = "closing"
  /\ ~Drained
  /\ proc.at = ShutdownTimeout
  /\ proc' = [proc EXCEPT !.phase = "exited", !.code = 1]
  /\ UNCHANGED <<saveAudioFiles, store, req>>

NextShutdown ==
  \/ \E i \in Slots : ShutArrive(i) \/ ShutServe(i) \/ ShutClose(i)
  \/ gracefulShutdown
  \/ Tick
  \/ serverClosed
  \/ forcedExit

\* The event loop runs the callbacks that are due, and time passes.
SpecShutdown ==
  /\ Init
  /\ [][NextShutdown]_vars
  /\ WF_vars(Tick)
  /\ WF_vars(serverClosed)
  /\ WF_vars(forcedExit)

(***************************************************************************)
(* Specification: uploads under every kind of original filename, one       *)
(* request at a time.                                                      *)
(***************************************************************************)
NameScript == <<".",".","/",".",".","/","e","v","i","l",".","S","H">>
NameDottedDir == <<"a",".","b","/","c">>
NameTrailing == <<"u","p",".","w","a","v","/">>
NameParent == <<".", ".">>
NameHidden == <<".","b","a","s","h","r","c">>

OriginalNames ==
  {NameRec, NameTraversal, NameAudio, NameScript, NameDottedDir, NameTrailing,
   NameParent, NameHidden, <<>>}

NameArrive(i) ==
  /\ \A j \in Slots : req[j].pc = "idle"
  /\ \E n \in OriginalNames :
       req' = [req EXCEPT ![i] =
                 NewRequest("transcribe", TextAbsent,
                            Upload("audio_file", MimeWav, 1024, n),
                            ProxyHost, "ok")]
  /\ UNCHANGED <<saveAudioFiles, store, proc>>

NextNames ==
  \E i \in Slots :
    \/ NameArrive(i)
    \/ uploadMiddleware(i)
    \/ transcribe(i)
    \/ saveAudioFile(i)
    \/ proxyTranscribe(i)
    \/ ConcReply(i)

SpecNames == Init /\ [][NextNames]_vars

(***************************************************************************)
(* Specification: the process starts.  The AudioService constructor calls  *)
(* ensureStorageDir without awaiting it and app.listen follows in the same *)
(* tick, so the mkdir and the first requests race.  A failed mkdir rejects *)
(* a promise nobody handles: the runtime ends the process with code 1 or   *)
(* only prints a warning, depending on its unhandled-rejection mode.       *)
(***************************************************************************)
Starting == Process("pending", "running", NoExit, 0)

InitStartup ==
  /\ saveAudioFiles \in BOOLEAN
  /\ store = EmptyStore
  /\ req = [i \in Slots |-> Idle]
  /\ proc = Starting

\* await fs.mkdir(storageDir, { recursive: true }) settles; on failure the
\* error is logged and thrown again.
ensureStorageDir ==
  /\ proc.dir = "pending"
  /\ proc.phase = "running"
  /\ \/ proc' = [proc EXCEPT !.dir = "ready"]
     \/ proc' = [proc EXCEPT !.dir = "failed"]
     \/ proc' = [proc EXCEPT !.dir = "failed", !.phase = "exited", !.code = 1]
  /\ UNCHANGED <<saveAudioFiles, store, req>>

StartArrive(i) ==
  /\ req[i].pc = "idle"
  /\ proc.phase = "running"
  /\ \E f \in ConcUploads :
       req' = [req EXCEPT ![i] =
                 NewRequest("transcribe", TextAbsent, f, ProxyHost, "ok")]
  /\ UNCHANGED <<saveAudioFiles, store, proc>>

StartServe(i) ==
  /\ proc.phase # "exited"
  /\ \/ uploadMiddleware(i)
     \/ transcribe(i)
     \/ saveAudioFile(i)
     \/ proxyTranscribe(i)
     \/ ConcReply(i)

NextStartup ==
  \/ ensureStorageDir
  \/ \E i \in Slots : StartArrive(i) \/ StartServe(i)

SpecStartup == InitStartup /\ [][NextStartup]_vars

(***************************************************************************)
(* Claims.                                                                 *)
(***************************************************************************)
Done(i) == req[i].pc = "done"

Field(i, k) == Get(req[i].body, k)

\* The text is absent, not a string, empty or made of whitespace only.
BlankText(text) ==
  \/ text.t # "string"
  \/ \A k \in 1..Len(text.s) : text.s[k] \in Whitespace

\* C1: a translate or detect-language request whose text is absent, not a
\* string, empty or whitespace-only is answered by the handler with 400
\* {error: "Bad Request", detail: "Text field is required and cannot be
\* empty"}, and the upstream client is never invoked for it.
C1_BlankTextRejected ==
  \A i \in Slots :
    (req[i].op \in {"translate", "detect"} /\ BlankText(req[i].text)) =>
      /\ req[i].calls = 0
      /\ req[i].pc # "awaiting"
      /\ (Done(i) /\ req[i].reached) =>
           /\ req[i].status = 400
           /\ req[i].body =
                ErrorBody("Bad Request", "Text field is required and cannot be empty")

C1_Witness ==
  \E i \in Slots :
    /\ Done(i) /\ req[i].reached
    /\ req[i].op = "detect"
    /\ req[i].text.t = "string" /\ Len(req[i].text.s) > 0
    /\ BlankText(req[i].text)
    /\ req[i].status = 400 /\ req[i].calls = 0

\* C2 as stated: a transcribe request whose uploaded file is absent or has
\* zero bytes is rejected with 400 before any artifact write and any
\* upstream call.
C2_AbsentOrEmptyFileRejected ==
  \A i \in Slots :
    (req[i].op = "transcribe" /\ (~req[i].file.present \/ req[i].file.size = 0)) =>
      /\ req[i].writes = 0
      /\ req[i].calls = 0
      /\ Done(i) => req[i].status = 400

\* C2 amended: a transcribe request with no uploaded file is rejected with
\* 400 "Audio file is required" before any artifact write and any upstream
\* call; a zero-byte file that passes the upload middleware is not rejected
\* by the handler.
C2_AbsentFileRejected ==
  \A i \in Slots :
    (req[i].op = "transcribe" /\ ~req[i].file.present) =>
      /\ req[i].writes = 0
      /\ req[i].calls = 0
      /\ req[i].pc \notin {"persist", "forward", "awaiting"}
      /\ Done(i) =>
           /\ req[i].status = 400
           /\ req[i].body = ErrorBody("Bad Request", "Audio file is required")

C2_Witness ==
  \E i \in Slots :
    /\ Done(i) /\ req[i].op = "transcribe" /\ req[i].reached
    /\ ~req[i].file.present
    /\ req[i].status = 400 /\ req[i].writes = 0 /\ req[i].calls = 0

\* The request attempted the artifact write and the write failed.
WriteFailed(i) ==
  saveAudioFiles /\ req[i].writes > 0 /\ req[i].saved = NoFilename

\* C3: with persistence enabled, a failed artifact write does not end the
\* transcribe request: the upstream call is still made, and when it succeeds
\* the client gets 200 with a null audio_file_url and every other upstream
\* field unchanged.
C3_WriteFailureTolerated ==
  \A i \in Slots :
    (req[i].op = "transcribe" /\ WriteFailed(i)) =>
      /\ req[i].pc \in {"forward", "awaiting", "done"}
      /\ req[i].pc \in {"awaiting", "done"} => req[i].calls = 1
      /\ Done(i) => req[i].reply # NoReply
      /\ (Done(i) /\ req[i].reply.type = "ok") =>
           /\ req[i].status = 200
           /\ req[i].body.kind = "object"
           /\ Field(i, "audio_file_url") = JsNull
           /\ \A k \in DOMAIN req[i].reply.data.fields \ {"audio_file_url"} :
                Field(i, k) = req[i].reply.data.fields[k]

C3_Witness ==
  \E i \in Slots :
    /\ Done(i) /\ req[i].op = "transcribe" /\ WriteFailed(i)
    /\ req[i].reply.type = "ok"
    /\ "text" \in DOMAIN req[i].reply.data.fields
    /\ req[i].status = 200
    /\ Field(i, "audio_file_url") = JsNull

ProxiedOps == {"health", "transcribe", "translate", "detect"}

\* C4: for each of health, transcribe, translate and detect-language, when
\* the upstream call gets no response the client receives 503 with error
\* "Internal server error" and detail "Python backend is not reachable".
C4_UnreachableIs503 ==
  \A i \in Slots :
    (Done(i) /\ req[i].reply.type = "noresponse") =>
      /\ req[i].op \in ProxiedOps
      /\ req[i].status = 503
      /\ req[i].body =
           ErrorBody("Internal server error", "Python backend is not reachable")

C4_Witness ==
  \E i \in Slots :
    /\ Done(i) /\ req[i].op = "health"
    /\ req[i].reply.type = "noresponse"
    /\ req[i].reply.message = "timeout of 300000ms exceeded"
    /\ req[i].status = 503

\* C5 as stated: every upstream response with a non-2xx status s, whatever
\* its body, makes the client receive status s, with the detail taken from
\* the body's detail field, else its error field, else a generic message.
C5_RejectionPassedThrough ==
  \A i \in Slots :
    (Done(i) /\ req[i].reply.type = "reject") =>
      LET data == req[i].reply.data
          has(k) == data.kind = "object" /\ k \in DOMAIN data.fields
                      /\ Truthy(data.fields[k])
      IN /\ req[i].status = req[i].reply.status
         /\ Field(i, "detail") =
              IF has("detail") THEN data.fields["detail"]
              ELSE IF has("error") THEN Str(data.fields["error"].v)
              ELSE Str(req[i].reply.message)

\* The response was written by error normalization (errorHandler).
Normalized(i) == Done(i) /\ req[i].err # NoError

Payload(i) ==
  IF req[i].err.data.kind = "object" THEN req[i].err.data.fields ELSE NoFields

Computed(i, k) ==
  IF k = "error"
  THEN Str(IF req[i].status >= 500 THEN "Internal server error" ELSE "Request error")
  ELSE Str(req[i].err.message)

\* C6 as stated: for every failure handed to error normalization, with any
\* status and any structured payload, the body has error "Internal server
\* error" when the status is >= 500 and "Request error" when it is < 500,
\* and detail equal to the failure's message.
C6_ErrorAndDetailComputed ==
  \A i \in Slots :
    Normalized(i) =>
      \A k \in {"error", "detail"} : Field(i, k) = Computed(i, k)

\* C6 amended: the body has error "Internal server error" when the status
\* is >= 500 and "Request error" when it is < 500, and detail equal to the
\* failure's message, except that a key error or detail of the failure's
\* structured payload replaces the computed value.
C6_ErrorAndDetailUnlessPayload ==
  \A i \in Slots :
    Normalized(i) =>
      /\ req[i].err.message # ""
      /\ \A k \in {"error", "detail"} :
           Field(i, k) = IF k \in DOMAIN Payload(i) THEN Payload(i)[k]
                         ELSE Computed(i, k)

C6_Witness ==
  \E i \in Slots :
    /\ Normalized(i)
    /\ req[i].status = 500
    /\ req[i].reply.type = "reject"
    /\ DOMAIN Payload(i) = {"detail"}
    /\ Field(i, "error") = Str("Internal server error")
    /\ Field(i, "detail") = Str("Unsupported language")

IsErrorResponse(i) == Done(i) /\ req[i].status >= 400

\* C7 as stated: every error response of every endpoint carries a status in
\* {400, 404, 500, 503}.
C7_StatusInFixedSet ==
  \A i \in Slots :
    IsErrorResponse(i) => req[i].status \in {400, 404, 500, 503}

\* C7 amended: every error response carries a status in {400, 404, 500,
\* 503}, or the non-2xx status of the upstream's response to that request,
\* or the status of the body parser's failure for that request.
C7_StatusFixedOrPassedThrough ==
  \A i \in Slots :
    IsErrorResponse(i) =>
      \/ req[i].status \in {400, 404, 500, 503}
      \/ (req[i].reply.type = "reject" /\ req[i].status = req[i].reply.status)
      \/ (req[i].parse = "too large" /\ req[i].status = 413)

C7_Witness ==
  \E i \in Slots :
    /\ IsErrorResponse(i)
    /\ req[i].reply.type = "reject"
    /\ req[i].status = 422

\* C8 as stated: every response with an error status, on any endpoint and
\* for any failure kind, is a JSON body that contains both error and detail
\* as strings.
C8_ErrorBodyHasStrings ==
  \A i \in Slots :
    IsErrorResponse(i) =>
      /\ req[i].body.kind = "object"
      /\ \A k \in {"error", "detail"} :
           k \in DOMAIN req[i].body.fields /\ Field(i, k).t = "string"

\* C8 amended: every response with an error status on a JSON endpoint
\* (health, transcribe, translate, detect-language, unmatched route) is a
\* JSON object that contains both error and detail, each a string unless
\* the upstream's error body gave that key a value that is not a string;
\* the HTML page answers a failure with an HTML document.
C8_ErrorBodyShape ==
  \A i \in Slots :
    IsErrorResponse(i) =>
      IF req[i].op = "page"
      THEN req[i].body.kind = "html"
      ELSE /\ req[i].body.kind = "object"
           /\ \A k \in {"error", "detail"} :
                /\ k \in DOMAIN req[i].body.fields
                /\ \/ Field(i, k).t = "string"
                   \/ /\ req[i].reply.type = "reject"
                      /\ Get(req[i].reply.data, k) = Field(i, k)

C8_Witness ==
  \E i \in Slots :
    /\ IsErrorResponse(i)
    /\ req[i].op = "transcribe"
    /\ req[i].reply.type = "reject"
    /\ Field(i, "detail").t = "array"
    /\ Field(i, "error").t = "string"

\* The upload is a file in the expected field that declares a content type,
\* so the content type decides.
TypeDecides(i) ==
  /\ req[i].op = "transcribe"
  /\ req[i].file.present
  /\ req[i].file.fieldname = "audio_file"
  /\ req[i].file.mimetype # <<>>

NoHandlerEffect(i) ==
  /\ ~req[i].reached
  /\ req[i].writes = 0
  /\ req[i].calls = 0
  /\ req[i].pc \in {"upload", "done"}
  /\ Done(i) => req[i].status >= 400

\* C9 as stated: an upload whose declared content type is not in the fixed
\* allow-list is rejected and never reaches the transcribe handler, so no
\* artifact write and no upstream call happens for it.
C9_OutsideAllowListRejected ==
  \A i \in Slots :
    (TypeDecides(i)
       /\ ~Includes(allowedMimeTypes, JoinStr(req[i].file.mimetype))) =>
      NoHandlerEffect(i)

\* C9 amended: an upload whose declared content type is not in the
\* allow-list and does not begin with "audio/" is rejected and never reaches
\* the transcribe handler, so no artifact write and no upstream call happens
\* for it.
C9_UnsupportedTypeRejected ==
  \A i \in Slots :
    (TypeDecides(i)
       /\ ~Includes(allowedMimeTypes, JoinStr(req[i].file.mimetype))
       /\ ~StartsWith(req[i].file.mimetype, AudioPrefix)) =>
      NoHandlerEffect(i)

C9_Witness ==
  \E i \in Slots :
    /\ TypeDecides(i) /\ Done(i)
    /\ req[i].file.mimetype = MimeText
    /\ req[i].file.size <= maxFileSize
    /\ NoHandlerEffect(i)

\* C10 as stated: every upload rejected because of its content type is
\* answered with status 400.
C10_UnsupportedTypeIs400 ==
  \A i \in Slots :
    (TypeDecides(i) /\ Done(i) /\ ~fileFilter(req[i].file)) =>
      req[i].status = 400

\* The upload is a file larger than the configured maximum.
Oversized(i) ==
  /\ req[i].op = "transcribe"
  /\ req[i].file.present
  /\ req[i].file.size > maxFileSize

\* C11 as stated: an upload larger than the configured maximum file size is
\* answered with status 400 and detail "File size exceeds maximum allowed
\* size of <N> MB", and the transcribe handler, the artifact store and the
\* upstream client are never invoked for it.
C11_OversizedIs400 ==
  \A i \in Slots :
    Oversized(i) =>
      /\ NoHandlerEffect(i)
      /\ Done(i) =>
           /\ req[i].status = 400
           /\ Field(i, "detail") = Str(FileTooLargeMessage)

\* C11 amended: the transcribe handler, the artifact store and the upstream
\* client are never invoked for an upload larger than the configured
\* maximum; when the upload is in the field audio_file and its content type
\* is accepted, the answer is 400 {error: "Bad Request", detail: "File size
\* exceeds maximum allowed size of <N> MB"} with N the configured maximum.
C11_OversizedRejected ==
  \A i \in Slots :
    Oversized(i) =>
      /\ NoHandlerEffect(i)
      /\ (Done(i) /\ req[i].file.fieldname = "audio_file"
            /\ fileFilter(req[i].file)) =>
           /\ req[i].status = 400
           /\ req[i].body =
                ErrorBody("Bad Request",
                          "File size exceeds maximum allowed size of 500 MB")

C11_Witness ==
  \E i \in Slots :
    /\ Oversized(i) /\ Done(i)
    /\ req[i].file.mimetype = MimeWav
    /\ req[i].file.fieldname = "audio_file"
    /\ req[i].status = 400
    /\ ~req[i].reached /\ req[i].writes = 0 /\ req[i].calls = 0

\* The client got the success answer of transcribe.
TranscribeSucceeded(i) ==
  Done(i) /\ req[i].op = "transcribe" /\ req[i].reply.type = "ok"

\* C12: with persistence disabled by configuration, saveAudioFile returns
\* null without a filesystem operation: no step of any transcribe request
\* changes the set of stored files or their contents, and every successful
\* transcribe response carries a null audio_file_url.
C12_DisabledNeverWrites ==
  /\ [](~saveAudioFiles =>
          \A i \in Slots :
            /\ req[i].writes = 0
            /\ req[i].saved = NoFilename
            /\ TranscribeSucceeded(i) =>
                 /\ req[i].status = 200
                 /\ Field(i, "audio_file_url") = JsNull)
  /\ [][~saveAudioFiles => store' = store]_vars

C12_Witness ==
  \E i \in Slots :
    /\ ~saveAudioFiles
    /\ TranscribeSucceeded(i)
    /\ store # EmptyStore
    /\ req[i].reply.data.kind = "object"
    /\ Field(i, "audio_file_url") = JsNull


\* The string s ends with the string suffix.
EndsWith(s, suffix) ==
  /\ Len(s) >= Len(suffix)
  /\ SubSeq(s, Len(s) - Len(suffix) + 1, Len(s)) = suffix

\* saveAudioFile returned a filename to the request.
Persisted(i) == req[i].op = "transcribe" /\ req[i].saved # NoFilename

\* C13: for every successful saveAudioFile, the URL getAudioUrl resolves for
\* it is a string ending in "/audio/<filename>", where <filename> is the
\* name saveAudioFile returned and under which the request's bytes were
\* written; a successful transcribe response carries exactly this URL.
C13_UrlEndsInSavedName ==
  \A i \in Slots :
    Persisted(i) =>
      LET url == getAudioUrl(req[i].saved, req[i].host)
      IN /\ req[i].saved \in DOMAIN store
         /\ store[req[i].saved] = Buffer(req[i].file)
         /\ url.t = "string"
         /\ EndsWith(url.v, "/audio/" \o JoinStr(req[i].saved))
         /\ EndsWith(getAudioUrl(req[i].saved, <<>>).v,
                     "/audio/" \o JoinStr(req[i].saved))
         /\ TranscribeSucceeded(i) => Field(i, "audio_file_url") = url

C13_Witness ==
  \E i \in Slots :
    /\ Persisted(i) /\ TranscribeSucceeded(i)
    /\ req[i].file.originalname = NameTraversal
    /\ store[req[i].saved] = Buffer(req[i].file)
    /\ Field(i, "audio_file_url").t = "string"
    /\ EndsWith(Field(i, "audio_file_url").v, JoinStr(req[i].saved))


\* The step is a saveAudioFile of request i that wrote a file.
Wrote(i) ==
  /\ req[i].pc = "persist"
  /\ req'[i].pc = "forward"
  /\ req'[i].saved # NoFilename

\* C14 as stated: any two saveAudioFile calls, concurrent calls within the
\* same second with the same buffer and original name included, produce
\* distinct filenames: every write goes to a path no earlier call wrote, so
\* no stored artifact is overwritten.
C14_DistinctFilenames ==
  [][\A i \in Slots : Wrote(i) => req'[i].saved \notin DOMAIN store]_vars

\* What generateFileName keeps of its inputs.
Second(iso) == Slice(iso, 19)
IdPrefix(uuid) == Slice(uuid, 8)
Extension(name) ==
  IF ToLowerCase(ExtName(name)) = <<>> THEN DefaultExt
  ELSE ToLowerCase(ExtName(name))

SameDraw(i, j) ==
  /\ Second(req[i].iso) = Second(req[j].iso)
  /\ IdPrefix(req[i].uuid) = IdPrefix(req[j].uuid)
  /\ Extension(req[i].file.originalname) = Extension(req[j].file.originalname)

\* C14 amended: two saveAudioFile calls produce the same filename exactly
\* when they agree on the second of the clock reading, on the first 8
\* characters of the random id and on the lower-cased extension of the
\* original name; calls that differ in one of them, concurrent or not, write
\* distinct paths, and a write changes no stored artifact but the one at its
\* own path.
C14_DistinctUnlessSameDraw ==
  /\ [](\A i, j \in Slots :
          (i # j /\ Persisted(i) /\ Persisted(j)) =>
            (req[i].saved = req[j].saved <=> SameDraw(i, j)))
  /\ [][\A i \in Slots :
          Wrote(i) =>
            \A n \in DOMAIN store \ {req'[i].saved} :
              n \in DOMAIN store' /\ store'[n] = store[n]]_vars

C14_Witness ==
  \E i, j \in Slots :
    /\ i # j /\ Persisted(i) /\ Persisted(j)
    /\ req[i].file = req[j].file
    /\ req[i].iso = req[j].iso
    /\ req[i].uuid # req[j].uuid
    /\ req[i].saved # req[j].saved
    /\ {req[i].saved, req[j].saved} \subseteq DOMAIN store
    /\ {req[i].pc, req[j].pc} = {"forward"}

\* The request passes the validation in front of its upstream call.
ValidationPasses(i) ==
  CASE req[i].op = "health" -> TRUE
    [] req[i].op \in {"translate", "detect"} ->
         req[i].parse = "ok" /\ ~BlankText(req[i].text)
    [] req[i].op = "transcribe" ->
         req[i].file.present /\ UploadError(req[i].file) = "none"
    [] OTHER -> FALSE

\* C15: each inbound request causes at most one upstream call, none when its
\* validation fails and exactly one by the time it is answered when its
\* validation passes; the call is not repeated after a success, a rejection,
\* a missing response or a timeout.
C15_OneUpstreamCall ==
  \A i \in Slots :
    /\ req[i].calls <= 1
    /\ ~ValidationPasses(i) => req[i].calls = 0
    /\ req[i].pc = "awaiting" => req[i].calls = 1
    /\ Done(i) =>
         /\ ValidationPasses(i) => req[i].calls = 1
         /\ req[i].reply # NoReply <=> req[i].calls = 1

C15_Witness ==
  \E i \in Slots :
    /\ Done(i) /\ req[i].op = "translate"
    /\ ValidationPasses(i)
    /\ req[i].reply.type = "noresponse"
    /\ req[i].reply.message = "timeout of 300000ms exceeded"
    /\ req[i].calls = 1


\* The request's upstream transcribe call has been made.
Forwarded(i) == req[i].op = "transcribe" /\ req[i].calls = 1

\* C16: the parameters transcribe sends upstream are language = the query
\* value when present and non-empty, else "auto"; enable_word_timestamps =
\* true when the parameter is absent, else true exactly when its value is the
\* string "true"; enable_diarization = true exactly when its value is the
\* string "true"; each depends on its own query parameter only, and all
\* three are sent with every call.
C16_ForwardedParams ==
  \A i \in Slots :
    Forwarded(i) =>
      LET q == req[i].query
          sent == req[i].forwarded
      IN /\ DOMAIN sent =
              {"language", "enable_word_timestamps", "enable_diarization"}
         /\ sent["language"] =
              IF q.language.t = "string" /\ q.language.v # ""
              THEN q.language.v ELSE "auto"
         /\ sent["enable_word_timestamps"] =
              IF q.enable_word_timestamps.t = "undefined" THEN "true"
              ELSE IF q.enable_word_timestamps.v = "true" THEN "true"
              ELSE "false"
         /\ sent["enable_diarization"] =
              IF q.enable_diarization.t = "string"
                   /\ q.enable_diarization.v = "true"
              THEN "true" ELSE "false"

C16_Witness ==
  \E i \in Slots :
    /\ Forwarded(i)
    /\ req[i].query = Query(Str(""), Str("true"), Str("TRUE"))
    /\ req[i].forwarded["language"] = "auto"
    /\ req[i].forwarded["enable_word_timestamps"] = "true"
    /\ req[i].forwarded["enable_diarization"] = "false"


\* The upstream answered the request's call with a 2xx response.
UpstreamOk(i) == Done(i) /\ req[i].reply.type = "ok"

\* C17: when the upstream answers 2xx, the body /health, /v1/translate and
\* /v1/detect-language return is the JSON value the upstream sent: no field
\* is added, removed or changed.
C17_PassthroughUnchanged ==
  \A i \in Slots :
    (UpstreamOk(i) /\ req[i].op \in {"health", "translate", "detect"}) =>
      /\ req[i].status = 200
      /\ req[i].body.kind = req[i].reply.data.kind
      /\ DOMAIN req[i].body.fields = DOMAIN req[i].reply.data.fields
      /\ \A k \in DOMAIN req[i].reply.data.fields :
           Field(i, k) = req[i].reply.data.fields[k]

C17_Witness ==
  \E i \in Slots :
    /\ UpstreamOk(i) /\ req[i].op = "health"
    /\ DOMAIN req[i].reply.data.fields = {"status", "error"}
    /\ Field(i, "status") = Str("healthy")
    /\ Field(i, "error") = JsNull


UpstreamFields(i) == DOMAIN req[i].reply.data.fields

\* C18 as stated: on a successful transcribe every field of the upstream's
\* JSON response, whatever its name, appears in the client response with the
\* upstream's value, and the response adds exactly one further field, the
\* resource URL.
C18_AllUpstreamFieldsKept ==
  \A i \in Slots :
    TranscribeSucceeded(i) =>
      /\ \A k \in UpstreamFields(i) : Field(i, k) = req[i].reply.data.fields[k]
      /\ DOMAIN req[i].body.fields \ UpstreamFields(i) = {"audio_file_url"}

\* C18 amended: on a successful transcribe the response's fields are the
\* upstream's fields and audio_file_url; every upstream field other than
\* audio_file_url has the upstream's value, and audio_file_url has the value
\* the proxy computed (the URL of the saved file, or null), which replaces an
\* audio_file_url of the upstream's.
C18_UpstreamFieldsAndOwnUrl ==
  \A i \in Slots :
    TranscribeSucceeded(i) =>
      /\ req[i].status = 200
      /\ req[i].body.kind = "object"
      /\ DOMAIN req[i].body.fields = UpstreamFields(i) \cup {"audio_file_url"}
      /\ \A k \in UpstreamFields(i) \ {"audio_file_url"} :
           Field(i, k) = req[i].reply.data.fields[k]
      /\ Field(i, "audio_file_url") =
           IF Persisted(i) THEN getAudioUrl(req[i].saved, req[i].host)
           ELSE JsNull

C18_Witness ==
  \E i \in Slots :
    /\ TranscribeSucceeded(i)
    /\ UpstreamFields(i) = {"text", "audio_file_url"}
    /\ Field(i, "text") = Str("hello world")
    /\ Field(i, "audio_file_url") # req[i].reply.data.fields["audio_file_url"]
    /\ Persisted(i)


\* C19: in every successful transcribe response audio_file_url is null, or
\* the string <base>/audio/<saved filename> with <base> the protocol and Host
\* under which the request reached this proxy and <saved filename> a file in
\* the store; it is not the value of an audio_file_url field of the
\* upstream's JSON.
C19_UrlIsOwn ==
  \A i \in Slots :
    TranscribeSucceeded(i) =>
      LET url == Field(i, "audio_file_url")
          theirs == Get(req[i].reply.data, "audio_file_url")
      IN /\ "audio_file_url" \in DOMAIN req[i].body.fields
         /\ \/ url = JsNull /\ ~Persisted(i)
            \/ /\ Persisted(i)
               /\ req[i].saved \in DOMAIN store
               /\ url.t = "string"
               /\ url.v = JoinStr(req[i].host) \o "/audio/" \o JoinStr(req[i].saved)
         /\ theirs.t = "string" => url # theirs

C19_Witness ==
  \E i \in Slots :
    /\ TranscribeSucceeded(i) /\ Persisted(i)
    /\ req[i].host # ProxyHost
    /\ Get(req[i].reply.data, "audio_file_url") =
         Str("http://backend:8000/audio/x.mp3")
    /\ StartsWith(Field(i, "audio_file_url").v, "http://stt.example.com/audio/2024")


\* The failure handed to errorHandler is an internal one: it came without a
\* status, or it is the failure to set up the upstream request, which
\* handleError wraps with status 500.
InternalFailure(i) ==
  Normalized(i) /\ (req[i].err.statusCode = 0 \/ req[i].reply.type = "setup")

\* The values of the response body: its fields, or its text.
BodyValues(i) ==
  {req[i].body.fields[k].v : k \in DOMAIN req[i].body.fields} \cup {req[i].body.text}

\* C20 as stated: for every internal failure the client receives status 500
\* with a generic message; the failure's own message and stack are written
\* to the log only and do not appear in the response body.
C20_InternalFailureHidden ==
  \A i \in Slots :
    InternalFailure(i) =>
      /\ req[i].status = 500
      /\ req[i].logged = LogEntry(req[i].err)
      /\ req[i].err.message # "" => req[i].err.message \notin BodyValues(i)
      /\ StackOf(req[i].err) \notin BodyValues(i)

\* C20 amended: for every internal failure the client receives status 500
\* with error "Internal server error" and with the failure's own message as
\* detail ("Internal server error" when the failure has no message); the
\* stack is written to the log only and does not appear in the response
\* body, which has no field but error and detail.
C20_InternalFailureIs500 ==
  \A i \in Slots :
    InternalFailure(i) =>
      /\ req[i].status = 500
      /\ req[i].body.kind = "object"
      /\ DOMAIN req[i].body.fields = {"error", "detail"}
      /\ Field(i, "error") = Str("Internal server error")
      /\ Field(i, "detail") =
           IF req[i].reply.type = "setup"
           THEN IF req[i].reply.message = "" THEN Str("Internal server error")
                ELSE Str(req[i].reply.message)
           ELSE Str(req[i].err.message)
      /\ req[i].logged.stack = StackOf(req[i].err)
      /\ StackOf(req[i].err) \notin BodyValues(i)

C20_Witness ==
  \E i \in Slots :
    /\ InternalFailure(i)
    /\ req[i].err.statusCode = 0
    /\ req[i].reply.type = "reject"
    /\ req[i].status = 500
    /\ Field(i, "detail") = Str("Cannot read properties of null (reading 'detail')")
    /\ req[i].logged.stack # ""


\* The upstream call of the transcribe request failed.
UpstreamFailed(i) ==
  /\ Done(i) /\ req[i].op = "transcribe"
  /\ req[i].reply.type \in {"reject", "noresponse", "setup"}

\* C21 as stated: an artifact is created only by a transcribe request that
\* succeeds; a transcribe request whose upstream call fails leaves no new
\* artifact in the store.
C21_ArtifactOnlyOnSuccess ==
  \A i \in Slots : UpstreamFailed(i) => req[i].saved \notin DOMAIN store

\* C21 amended: an artifact is created only by the persist step of a
\* transcribe request that passed validation, with persistence enabled and
\* before that request's upstream call; the artifact stays in the store
\* whatever the upstream call's outcome, a failure included.
C21_ArtifactByValidatedRequest ==
  /\ [][store' # store =>
          \E i \in Slots :
            /\ Wrote(i) /\ req[i].op = "transcribe"
            /\ saveAudioFiles /\ ValidationPasses(i)
            /\ req[i].calls = 0 /\ req[i].reply = NoReply
            /\ DOMAIN store' = DOMAIN store \cup {req'[i].saved}]_vars
  /\ [](\A i \in Slots :
          (Persisted(i) /\ Done(i)) =>
            /\ req[i].saved \in DOMAIN store
            /\ store[req[i].saved] = Buffer(req[i].file))

C21_Witness ==
  \E i \in Slots :
    /\ UpstreamFailed(i) /\ Persisted(i)
    /\ req[i].reply.type = "noresponse"
    /\ req[i].status = 503
    /\ req[i].saved \in DOMAIN store


\* C22 as stated: under any sequence and interleaving of health, transcribe,
\* translate and detect-language requests no stored artifact is deleted and
\* none has its content changed after it was written.
C22_StoreOnlyGrows ==
  [][\A n \in DOMAIN store : n \in DOMAIN store' /\ store'[n] = store[n]]_vars

\* C22 amended: no stored artifact is ever deleted, and the content of a
\* stored artifact changes only when the persist step of a later transcribe
\* request generates the same filename and writes over it; health, translate
\* and detect-language requests leave the store as it is.
C22_NoDeletion ==
  [][/\ \A n \in DOMAIN store :
          /\ n \in DOMAIN store'
          /\ store'[n] # store[n] =>
               \E i \in Slots :
                 /\ Wrote(i) /\ req[i].op = "transcribe"
                 /\ req'[i].saved = n
     /\ (\E i \in Slots :
           req'[i] # req[i] /\ req'[i].op \in {"health", "translate", "detect"})
          => store' = store]_vars

C22_Witness ==
  \E i, j \in Slots :
    /\ req[i].op = "health" /\ Done(i)
    /\ Persisted(j) /\ req[j].pc = "done"
    /\ EarlierFile \in DOMAIN store
    /\ store[EarlierFile] # Buffer(req[j].file)
    /\ req[j].saved \in DOMAIN store


\* The persistence attempt of the request is over: one write was attempted
\* with persistence enabled, none with persistence disabled.
PersistFinished(i) == req[i].writes = IF saveAudioFiles THEN 1 ELSE 0

\* C23: a transcribe request runs Validate, Persist, Forward, Shape Response
\* in this order: nothing is persisted or forwarded before validation has
\* passed, the persistence attempt is over (succeeded, failed or skipped)
\* before the upstream call is issued, the response is shaped only from the
\* upstream's reply, and after a validation failure or an upstream failure
\* no further stage runs.
C23_StageOrder ==
  \A i \in Slots :
    req[i].op = "transcribe" =>
      /\ req[i].pc \in {"persist", "forward", "awaiting"} =>
           req[i].reached /\ ValidationPasses(i) /\ req[i].sent = 0
      /\ req[i].pc \in {"upload", "handler", "persist"} =>
           req[i].writes = 0 /\ req[i].calls = 0
      /\ req[i].pc = "forward" => PersistFinished(i) /\ req[i].calls = 0
      /\ req[i].calls > 0 =>
           PersistFinished(i) /\ req[i].pc \in {"awaiting", "done"}
      /\ req[i].pc = "awaiting" => req[i].reply = NoReply
      /\ ~ValidationPasses(i) =>
           /\ req[i].writes = 0 /\ req[i].calls = 0
           /\ Done(i) => req[i].status >= 400
      /\ UpstreamFailed(i) =>
           /\ req[i].status >= 400
           /\ "audio_file_url" \notin DOMAIN req[i].body.fields
      /\ (Done(i) /\ req[i].status = 200) =>
           req[i].calls = 1 /\ req[i].reply.type = "ok"

C23_Witness ==
  \E i \in Slots :
    /\ UpstreamFailed(i)
    /\ req[i].reply.type = "reject" /\ req[i].status = 422
    /\ saveAudioFiles /\ req[i].writes = 1 /\ req[i].calls = 1
    /\ Persisted(i)


\* C24: every request on the API endpoints gets exactly one response: at no
\* point has more than one response been written for it, it is finished
\* exactly when one has been written, and every request that arrived is
\* eventually answered, whichever way validation, persistence and the
\* upstream call go.
C24_ExactlyOneResponse ==
  /\ [](\A i \in Slots :
          /\ req[i].sent <= 1
          /\ Done(i) <=> req[i].sent = 1
          /\ Done(i) => req[i].status >= 200 /\ req[i].body # NoBody)
  /\ \A i \in Slots : (req[i].pc # "idle") ~> Done(i)

C24_Witness ==
  \E i \in Slots :
    /\ Done(i) /\ req[i].op = "transcribe"
    /\ WriteFailed(i)
    /\ req[i].reply.message = "timeout of 300000ms exceeded"
    /\ req[i].sent = 1

(***************************************************************************)
(* C25: graceful shutdown.                                                 *)
(***************************************************************************)
Exited(code) == proc.phase = "exited" /\ proc.code = code

\* C25: after a shutdown signal no new connection is accepted; the process
\* exits with code 0 only once every connection has closed, which it does
\* at that very moment and no later than the timeout, or else with code 1
\* at the timeout exactly, so that no request in flight is cut off before
\* the grace period is over; and it always exits.
C25_GracefulShutdown ==
  /\ [](proc.phase = "exited" =>
          /\ proc.code \in {0, 1}
          /\ proc.code = 0 => OpenConnections = {} /\ proc.at <= ShutdownTimeout
          /\ proc.code = 1 => proc.at = ShutdownTimeout
          /\ InFlight # {} => proc.at = ShutdownTimeout)
  /\ [][/\ proc.phase # "running" =>
             \A i \in Slots : req[i].pc = "idle" => req'[i].pc = "idle"
        /\ Drained => Exited(0)' /\ proc'.at = proc.at]_vars
  /\ (proc.phase = "closing") ~> (proc.phase = "exited")

\* A request was still waiting for the upstream when the grace period ended,
\* and the exit was forced.
C25_Witness ==
  /\ Exited(1)
  /\ proc.at = ShutdownTimeout
  /\ \E i \in Slots : req[i].pc = "awaiting"



(***************************************************************************)
(* C26: serving waits for the storage root.                                *)
(***************************************************************************)
\* C26: with persistence enabled, the persist step of a transcribe request
\* attempts its write only when the creation of the storage root has
\* completed successfully, and after a failed creation no request is served.
C26_ServesAfterStorageRoot ==
  [][saveAudioFiles =>
       \A i \in Slots :
         /\ req'[i].writes > req[i].writes => proc.dir = "ready"
         /\ proc.dir = "failed" => req'[i] = req[i]]_vars

(***************************************************************************)
(* C27: an upstream rejection's body is merged into the error body.        *)
(***************************************************************************)
StructuredRejection(i) ==
  /\ Done(i)
  /\ req[i].reply.type = "reject"
  /\ req[i].reply.data.kind = "object"

\* C27: when the upstream rejects with a structured body, the client's error
\* body is an object whose keys are error, detail and the upstream's keys,
\* and every upstream key carries the upstream's value at the top level.
C27_UpstreamKeysAtTopLevel ==
  \A i \in Slots :
    StructuredRejection(i) =>
      /\ req[i].body.kind = "object"
      /\ DOMAIN req[i].body.fields = UpstreamFields(i) \cup {"error", "detail"}
      /\ \A k \in UpstreamFields(i) : Field(i, k) = req[i].reply.data.fields[k]

\* A transcribe request was rejected with {error: .., code: ..}: code is
\* added and error replaces the computed one.
C27_Witness ==
  \E i \in Slots :
    /\ StructuredRejection(i)
    /\ req[i].op = "transcribe"
    /\ UpstreamFields(i) = {"error", "code"}
    /\ Field(i, "code") = Str("E42")
    /\ Field(i, "error") = Str("Validation Error")

(***************************************************************************)
(* C28: the resource URL is null exactly when nothing was persisted.       *)
(***************************************************************************)
\* C28: in a successful transcribe response audio_file_url is a string if
\* and only if the persist step of that request wrote its file and returned
\* the filename, and it is null if and only if persistence is disabled or
\* the write failed.
C28_UrlIffPersisted ==
  \A i \in Slots :
    TranscribeSucceeded(i) =>
      LET url == Field(i, "audio_file_url")
      IN /\ url.t \in {"string", "null"}
         /\ url.t = "string" <=>
              (saveAudioFiles /\ req[i].writes = 1 /\ req[i].saved # NoFilename)
         /\ url = JsNull <=> (~saveAudioFiles \/ WriteFailed(i))

\* Persistence is enabled and the write failed: the URL is null although the
\* upstream answered with an audio_file_url of its own.
C28_Witness ==
  \E i \in Slots :
    /\ TranscribeSucceeded(i)
    /\ saveAudioFiles /\ WriteFailed(i)
    /\ Field(i, "audio_file_url") = JsNull
    /\ Get(req[i].reply.data, "audio_file_url").t = "string"

(***************************************************************************)
(* C29: concurrent requests do not see each other.                         *)
(***************************************************************************)
\* The response of request i is made of its own data only.
OwnResponse(i) ==
  LET r == req[i]
      url == Field(i, "audio_file_url")
  IN CASE r.reply.type = "ok" /\ r.op = "transcribe" ->
            /\ r.status = 200
            /\ url = IF Persisted(i) THEN getAudioUrl(r.saved, r.host) ELSE JsNull
            /\ DOMAIN r.body.fields = UpstreamFields(i) \cup {"audio_file_url"}
            /\ \A k \in UpstreamFields(i) \ {"audio_file_url"} :
                 Field(i, k) = r.reply.data.fields[k]
       [] r.reply.type = "ok" /\ r.op # "transcribe" ->
            r.status = 200 /\ r.body = r.reply.data
       [] r.reply.type = "noresponse" ->
            r.status = 503 /\ Field(i, "detail") = Str(BackendUnreachable)
       [] OTHER -> r.calls = 0 /\ r.status = 400

\* The response of i names the file that j saved.
NamesFileOf(i, j) ==
  /\ TranscribeSucceeded(i)
  /\ Persisted(j)
  /\ Field(i, "audio_file_url").t = "string"
  /\ EndsWith(Field(i, "audio_file_url").v, "/audio/" \o JoinStr(req[j].saved))

\* C29 as stated: under every interleaving each response is made of the
\* request's own input, persist outcome and upstream reply, and no response
\* contains the filename or URL of another request.
C29_NothingShared ==
  \A i \in Slots :
    Done(i) =>
      /\ OwnResponse(i)
      /\ \A j \in Slots \ {i} : ~NamesFileOf(i, j)

\* C29 amended: each response is made of the request's own data, and it
\* names the file of another request only when both persist steps generated
\* the same filename.
C29_NothingSharedUnlessSameDraw ==
  \A i \in Slots :
    Done(i) =>
      /\ OwnResponse(i)
      /\ \A j \in Slots \ {i} :
           NamesFileOf(i, j) => (Persisted(i) /\ SameDraw(i, j))

\* Two transcribe requests were served concurrently from the same upload
\* name and both succeeded: each response names its own file.
C29_Witness ==
  \E i, j \in Slots :
    /\ i # j
    /\ TranscribeSucceeded(i) /\ TranscribeSucceeded(j)
    /\ Persisted(i) /\ Persisted(j)
    /\ req[i].file.originalname = req[j].file.originalname
    /\ ~SameDraw(i, j)
    /\ NamesFileOf(i, i) /\ NamesFileOf(j, j)
    /\ Field(i, "audio_file_url") # Field(j, "audio_file_url")

(***************************************************************************)
(* C30: the written path is a direct child of the storage root.            *)
(***************************************************************************)
\* The path separator of the platform's path module (POSIX).
Separators == {"/"}

\* C30: whatever the original filename, the generated name is the 19
\* characters of the timestamp, an underscore, 8 characters of the id and
\* the lower-cased extension of the original name, or .mp3 when it has none;
\* it contains no path separator, and the path written is the storage root
\* followed by that one name.
C30_WrittenUnderStorageRoot ==
  \A i \in Slots :
    Persisted(i) =>
      LET name == req[i].saved
          ext == Extension(originalFilename(req[i].file))
      IN /\ \A k \in 1..Len(name) : name[k] \notin Separators
         /\ PathJoin(storageDir, name) = Append(Segments(storageDir), name)
         /\ Len(name) = 19 + 1 + 8 + Len(ext)
         /\ name[20] = "_"
         /\ SubSeq(name, 29, Len(name)) = ext
         /\ ext[1] = "."
         /\ \A k \in 2..Len(ext) : ext[k] \notin Separators \cup {"."}
         /\ ExtName(originalFilename(req[i].file)) = <<>> => ext = DefaultExt
         /\ name \in DOMAIN store

\* An upload named ../../evil.SH was written as <timestamp>_<id>.sh.
C30_Witness ==
  \E i \in Slots :
    /\ Persisted(i)
    /\ req[i].file.originalname = NameScript
    /\ EndsWith(JoinStr(req[i].saved), "_3f2b8c1e.sh")
    /\ req[i].saved \in DOMAIN store

====
